---- MODULE Spec2Model ----
(***************************************************************************)
(* A model of gqlalchemy/query_builder.py: the partial-query classes, the  *)
(* DeclarativeBase chaining methods, the linking check, the rendering of   *)
(* the statement and the two terminal operations.                          *)
(*                                                                         *)
(* Text is a sequence of tokens.  A token is either ONE whitespace         *)
(* character (" " or "\t") or a non-empty string without whitespace, so    *)
(* that a regular expression over whitespace and a substring test can be   *)
(* computed as the code computes them.  Flat turns a text into the string  *)
(* the collaborator receives.                                              *)
(***************************************************************************)
EXTENDS Integers, Sequences, FiniteSets, TLC

VARIABLES _query, _fetch_results, cls, connection, trace, budget

vars == <<_query, _fetch_results, cls, connection, trace, budget>>

\* ---------------------------------------------------------------- bounds
MaxCalls == 2
MaxChain == 4
MaxPattern == 4
MaxExample == 5
MaxRender == 2
MaxFragments == 3
MaxItems == 2
MaxPreset == 3
MaxLinking == 4

\* ------------------------------------------------------------------ text
WS == {" ", "\t"}

\* Python's None, for the optional string arguments (never a real text).
None == <<"<None>">>

RECURSIVE Flat(_)
Flat(t) == IF t = <<>> THEN "" ELSE Head(t) \o Flat(Tail(t))

\* sep.join(parts)
RECURSIVE Join(_, _)
Join(sep, parts) ==
    IF parts = <<>> THEN <<>>
    ELSE IF Len(parts) = 1 THEN parts[1]
    ELSE parts[1] \o sep \o Join(sep, Tail(parts))

\* the length of the whitespace run that starts at the head of t
RECURSIVE WsRun(_)
WsRun(t) == IF t # <<>> /\ Head(t) \in WS THEN 1 + WsRun(Tail(t)) ELSE 0

\* the substitution with the pattern "\\s+": a single whitespace character
\* becomes a space too
RECURSIVE ReSubWs_any(_)
ReSubWs_any(t) ==
    IF t = <<>> THEN <<>>
    ELSE IF WsRun(t) >= 1
         THEN <<" ">> \o ReSubWs_any(SubSeq(t, WsRun(t) + 1, Len(t)))
         ELSE <<Head(t)>> \o ReSubWs_any(Tail(t))

\* ReSubWs without the substitution
ReSubWs_off(t) == t

\* re.sub("\\s\\s+", " ", t): every maximal run of two or more whitespace
\* characters becomes one space; a single whitespace character is kept.
RECURSIVE ReSubWs(_)
ReSubWs(t) ==
    IF t = <<>> THEN <<>>
    ELSE IF WsRun(t) >= 2
         THEN <<" ">> \o ReSubWs(SubSeq(t, WsRun(t) + 1, Len(t)))
         ELSE <<Head(t)>> \o ReSubWs(Tail(t))

\* " RETURN " in t
ContainsReturn(t) ==
    \E i, j \in 1..Len(t) :
        /\ i + 1 < j
        /\ t[i] = " "
        /\ t[j] = " "
        /\ \A k \in (i + 1)..(j - 1) : t[k] \notin WS
        /\ Flat(SubSeq(t, i + 1, j - 1)) = "RETURN"

\* ------------------------------------------------- literal serialization
\* utilities.to_cypher_labels for one label or none
to_cypher_labels(labels) ==
    IF labels = None \/ labels = <<>> THEN <<>> ELSE <<":">> \o labels

\* utilities.to_cypher_properties for a list of (name, value-text) pairs
to_cypher_properties(kwargs) ==
    IF kwargs = <<>> THEN <<>>
    ELSE <<"{">>
         \o Join(<<",", " ">>,
                 [i \in 1..Len(kwargs) |-> kwargs[i][1] \o <<":", " ">> \o kwargs[i][2]])
         \o <<"}">>

\* utilities.to_cypher_value for an integer
to_cypher_value(value) == <<ToString(value)>>

\* ------------------------------------------------------- partial queries
LoadCsvPartialQuery(path, header, row) ==
    [class |-> "LoadCsvPartialQuery", type |-> "LOAD_CSV",
     path |-> path, header |-> header, row |-> row]

MatchPartialQuery(optional) ==
    [class |-> "MatchPartialQuery", type |-> "MATCH", optional |-> optional]

MergePartialQuery == [class |-> "MergePartialQuery", type |-> "MERGE"]

CreatePartialQuery == [class |-> "CreatePartialQuery", type |-> "CREATE"]

CallPartialQuery(procedure, arguments) ==
    [class |-> "CallPartialQuery", type |-> "CALL",
     procedure |-> procedure, arguments |-> arguments]

WhereConditionPartialQuery(keyword, query) ==
    [class |-> "WhereConditionPartialQuery", type |-> "WHERE",
     keyword |-> keyword, query |-> query]

NodePartialQuery(variable, labels, properties) ==
    [class |-> "NodePartialQuery", type |-> "NODE",
     variable |-> variable, labels |-> labels, properties |-> properties]

EdgePartialQuery(variable, labels, properties, directed, from_) ==
    [class |-> "EdgePartialQuery", type |-> "EDGE",
     variable |-> variable, labels |-> labels, properties |-> properties,
     directed |-> directed, from_ |-> from_]

UnwindPartialQuery(list_expression, variable) ==
    [class |-> "UnwindPartialQuery", type |-> "UNWIND",
     list_expression |-> list_expression, variable |-> variable]

WithPartialQuery(results) ==
    [class |-> "WithPartialQuery", type |-> "WITH", results |-> results]

UnionPartialQuery(include_duplicates) ==
    [class |-> "UnionPartialQuery", type |-> "UNION",
     include_duplicates |-> include_duplicates]

DeletePartialQuery(variable_expressions, detach) ==
    [class |-> "DeletePartialQuery", type |-> "DELETE",
     variable_expressions |-> variable_expressions, detach |-> detach]

RemovePartialQuery(items) ==
    [class |-> "RemovePartialQuery", type |-> "REMOVE", items |-> items]

YieldPartialQuery(results) ==
    [class |-> "YieldPartialQuery", type |-> "YIELD", results |-> results]

ReturnPartialQuery(results) ==
    [class |-> "ReturnPartialQuery", type |-> "RETURN", results |-> results]

OrderByPartialQuery(properties) ==
    [class |-> "OrderByPartialQuery", type |-> "ORDER_BY", properties |-> properties]

LimitPartialQuery(integer_expression) ==
    [class |-> "LimitPartialQuery", type |-> "LIMIT",
     integer_expression |-> integer_expression]

SkipPartialQuery(integer_expression) ==
    [class |-> "SkipPartialQuery", type |-> "SKIP",
     integer_expression |-> integer_expression]

\* the raw fragment: its type is SKIP in the source
AddStringPartialQuery(custom_cypher) ==
    [class |-> "AddStringPartialQuery", type |-> "SKIP",
     custom_cypher |-> custom_cypher]

\* the "x if x is not None else ''" properties of the partial queries
OrEmpty(v) == IF v = None THEN <<>> ELSE v

\* dict_to_alias_statement without the test that the alias differs from the key
dict_to_alias_statement_as(alias_dict) ==
    Join(<<",", " ">>,
         [i \in 1..Len(alias_dict) |->
             LET key == alias_dict[i][1]
                 value == alias_dict[i][2]
             IN  IF value # <<>>
                 THEN key \o <<" ", "AS", " ">> \o value
                 ELSE key])

\* a results mapping is a sequence of <<key, alias>> pairs in insertion order
dict_to_alias_statement(alias_dict) ==
    Join(<<",", " ">>,
         [i \in 1..Len(alias_dict) |->
             LET key == alias_dict[i][1]
                 value == alias_dict[i][2]
             IN  IF value # <<>> /\ key # value
                 THEN key \o <<" ", "AS", " ">> \o value
                 ELSE key])

ResultsQuery(keyword, results) ==
    IF Len(OrEmpty(results)) = 0
    THEN <<" ", keyword, " ", "*", " ">>
    ELSE <<" ", keyword, " ">> \o dict_to_alias_statement(OrEmpty(results)) \o <<" ">>

\* NodeQuery putting the separating space also before empty properties
NodeQuery_spaced(q) ==
    <<"(">> \o OrEmpty(q.variable) \o OrEmpty(q.labels)
    \o <<" ">> \o OrEmpty(q.properties)
    \o <<")">>

NodeQuery(q) ==
    <<"(">> \o OrEmpty(q.variable) \o OrEmpty(q.labels)
    \o (IF OrEmpty(q.properties) # <<>> THEN <<" ">> \o OrEmpty(q.properties) ELSE <<>>)
    \o <<")">>

\* EdgeQuery testing the direction flag from_ before directed
EdgeQuery_from_first(q) ==
    LET relationship_query == OrEmpty(q.variable) \o OrEmpty(q.labels) \o OrEmpty(q.properties)
    IN  IF q.from_ THEN <<"<-[">> \o relationship_query \o <<"]-">>
        ELSE IF ~q.directed THEN <<"-[">> \o relationship_query \o <<"]-">>
        ELSE <<"-[">> \o relationship_query \o <<"]->">>

EdgeQuery(q) ==
    LET relationship_query == OrEmpty(q.variable) \o OrEmpty(q.labels) \o OrEmpty(q.properties)
    IN  IF ~q.directed THEN <<"-[">> \o relationship_query \o <<"]-">>
        ELSE IF q.from_ THEN <<"<-[">> \o relationship_query \o <<"]-">>
        ELSE <<"-[">> \o relationship_query \o <<"]->">>

\* DeleteQuery emitting DETACH whatever detach is
DeleteQuery_always(q) ==
    <<" ", "DETACH", " ", "DELETE", " ">>
    \o Join(<<",", " ">>, OrEmpty(q.variable_expressions)) \o <<" ">>

DeleteQuery(q) ==
    <<" ">> \o (IF q.detach THEN <<"DETACH">> ELSE <<>>) \o <<" ", "DELETE", " ">>
    \o Join(<<",", " ">>, OrEmpty(q.variable_expressions)) \o <<" ">>

\* PartialQuery.construct_query, by class
construct_query(q) ==
    CASE q.class = "LoadCsvPartialQuery" ->
            <<" ", "LOAD", " ", "CSV", " ", "FROM", " ", "'">> \o q.path \o <<"'", " ">>
            \o (IF q.header THEN <<"WITH">> ELSE <<"NO">>)
            \o <<" ", "HEADER", " ", "AS", " ">> \o q.row \o <<" ">>
      [] q.class = "MatchPartialQuery" ->
            IF q.optional THEN <<" ", "OPTIONAL", " ", "MATCH", " ">>
            ELSE <<" ", "MATCH", " ">>
      [] q.class = "MergePartialQuery" -> <<" ", "MERGE", " ">>
      [] q.class = "CreatePartialQuery" -> <<" ", "CREATE", " ">>
      [] q.class = "CallPartialQuery" ->
            <<" ", "CALL", " ">> \o q.procedure \o <<"(">>
            \o (IF q.arguments # None /\ q.arguments # <<>> THEN q.arguments ELSE <<>>)
            \o <<")", " ">>
      [] q.class = "WhereConditionPartialQuery" ->
            <<" ", q.keyword, " ">> \o q.query \o <<" ">>
      [] q.class = "NodePartialQuery" -> NodeQuery(q)
      [] q.class = "EdgePartialQuery" -> EdgeQuery(q)
      [] q.class = "UnwindPartialQuery" ->
            <<" ", "UNWIND", " ">> \o q.list_expression \o <<" ", "AS", " ">>
            \o q.variable \o <<" ">>
      [] q.class = "WithPartialQuery" -> ResultsQuery("WITH", q.results)
      [] q.class = "UnionPartialQuery" ->
            <<" ", "UNION">> \o (IF q.include_duplicates THEN <<" ", "ALL">> ELSE <<>>)
            \o <<" ">>
      [] q.class = "DeletePartialQuery" -> DeleteQuery(q)
      [] q.class = "RemovePartialQuery" ->
            <<" ", "REMOVE", " ">> \o Join(<<",", " ">>, OrEmpty(q.items)) \o <<" ">>
      [] q.class = "YieldPartialQuery" -> ResultsQuery("YIELD", q.results)
      [] q.class = "ReturnPartialQuery" -> ResultsQuery("RETURN", q.results)
      [] q.class = "OrderByPartialQuery" ->
            <<" ", "ORDER", " ", "BY", " ">> \o q.properties \o <<" ">>
      [] q.class = "LimitPartialQuery" ->
            <<" ", "LIMIT", " ">> \o q.integer_expression \o <<" ">>
      [] q.class = "SkipPartialQuery" ->
            <<" ", "SKIP", " ">> \o q.integer_expression \o <<" ">>
      [] q.class = "AddStringPartialQuery" -> q.custom_cypher

\* "".join([""] + [p.construct_query() for p in query])
RECURSIVE JoinedQuery(_)
JoinedQuery(query) ==
    IF query = <<>> THEN <<>>
    ELSE construct_query(Head(query)) \o JoinedQuery(Tail(query))

\* DeclarativeBase._construct_query: the statement text, as a string
_construct_query(query) == Flat(ReSubWs(JoinedQuery(query)))

\* the linking check accepting every continuation
_is_linking_valid_always(query, match_type) == TRUE

\* the linking check looking at the first segment instead of the last
_is_linking_valid_first(query, match_type) ==
    Len(query) = 0 \/ query[1].type # match_type

\* DeclarativeBase._is_linking_valid_with_query
_is_linking_valid_with_query(query, match_type) ==
    Len(query) = 0 \/ query[Len(query)].type # match_type

\* --------------------------------------------------------- call outcomes
Self == [kind |-> "self", value |-> 0]
RetNone == [kind |-> "None", value |-> 0]
RetIterator == [kind |-> "iterator", value |-> 0]
RetValue(v) == [kind |-> "value", value |-> v]
RetRow == [kind |-> "row", value |-> 0]
NoRet == [kind |-> "raised", value |-> 0]

Last(s) == s[Len(s)]

\* the caller makes at most budget calls on the builder
CanCall == Len(trace) < budget

\* the call returned ret, after pulling `pulled` rows from a lazy sequence
Returned(op, ret, pulled) ==
    trace' = Append(trace, [op |-> op, raised |-> "", ret |-> ret, pulled |-> pulled])

\* the call raised exception exc
Raised(op, exc, pulled) ==
    trace' = Append(trace, [op |-> op, raised |-> exc, ret |-> NoRet, pulled |-> pulled])

\* a domain Node / Relationship object, or no object
NoObject == [given |-> FALSE]

\* --------------------------------------------------- DeclarativeBase
\* match appending nothing once a statement was sent to the collaborator
match_frozen(optional) ==
    /\ CanCall
    /\ _query' = IF connection = <<>> THEN Append(_query, MatchPartialQuery(optional))
                 ELSE _query
    /\ Returned("match", Self, 0)
    /\ UNCHANGED <<_fetch_results, cls, connection, budget>>

\* match inserting its segment in front
match_prepends(optional) ==
    /\ CanCall
    /\ _query' = <<MatchPartialQuery(optional)>> \o _query
    /\ Returned("match", Self, 0)
    /\ UNCHANGED <<_fetch_results, cls, connection, budget>>

match(optional) ==
    /\ CanCall
    /\ _query' = Append(_query, MatchPartialQuery(optional))
    /\ Returned("match", Self, 0)
    /\ UNCHANGED <<_fetch_results, cls, connection, budget>>

merge ==
    /\ CanCall
    /\ _query' = Append(_query, MergePartialQuery)
    /\ Returned("merge", Self, 0)
    /\ UNCHANGED <<_fetch_results, cls, connection, budget>>

create ==
    /\ CanCall
    /\ _query' = Append(_query, CreatePartialQuery)
    /\ Returned("create", Self, 0)
    /\ UNCHANGED <<_fetch_results, cls, connection, budget>>

call(procedure, arguments) ==
    /\ CanCall
    /\ _query' = Append(_query, CallPartialQuery(procedure, arguments))
    /\ Returned("call", Self, 0)
    /\ UNCHANGED <<_fetch_results, cls, connection, budget>>

\* node storing its segment before it raises
node_stores(labels, variable, node_, kwargs) ==
    /\ CanCall
    /\ _query' = Append(_query,
            NodePartialQuery(variable, to_cypher_labels(labels), to_cypher_properties(kwargs)))
    /\ IF ~_is_linking_valid_with_query(_query, "NODE")
       THEN Raised("node", "InvalidMatchChainException", 0)
       ELSE Returned("node", Self, 0)
    /\ UNCHANGED <<_fetch_results, cls, connection, budget>>

node(labels, variable, node_, kwargs) ==
    /\ CanCall
    /\ IF ~_is_linking_valid_with_query(_query, "NODE")
       THEN /\ Raised("node", "InvalidMatchChainException", 0)
            /\ UNCHANGED _query
       ELSE LET labels_str == IF ~node_.given THEN to_cypher_labels(labels)
                              ELSE to_cypher_labels(node_._labels)
                properties_str == IF ~node_.given THEN to_cypher_properties(kwargs)
                                  ELSE to_cypher_properties(node_._properties)
            IN  /\ _query' = Append(_query, NodePartialQuery(variable, labels_str, properties_str))
                /\ Returned("node", Self, 0)
    /\ UNCHANGED <<_fetch_results, cls, connection, budget>>

\* to appending its segment without the linking check
to_unchecked(edge_label, directed, variable, relationship, kwargs) ==
    /\ CanCall
    /\ LET type_str == IF ~relationship.given THEN to_cypher_labels(edge_label)
                       ELSE to_cypher_labels(relationship._type)
           properties_str == IF ~relationship.given THEN to_cypher_properties(kwargs)
                             ELSE to_cypher_properties(relationship._properties)
       IN  /\ _query' = Append(_query,
                   EdgePartialQuery(variable, type_str, properties_str, directed, FALSE))
           /\ Returned("to", Self, 0)
    /\ UNCHANGED <<_fetch_results, cls, connection, budget>>

to(edge_label, directed, variable, relationship, kwargs) ==
    /\ CanCall
    /\ IF ~_is_linking_valid_with_query(_query, "EDGE")
       THEN /\ Raised("to", "InvalidMatchChainException", 0)
            /\ UNCHANGED _query
       ELSE LET type_str == IF ~relationship.given THEN to_cypher_labels(edge_label)
                            ELSE to_cypher_labels(relationship._type)
                properties_str == IF ~relationship.given THEN to_cypher_properties(kwargs)
                                  ELSE to_cypher_properties(relationship._properties)
            IN  /\ _query' = Append(_query,
                        EdgePartialQuery(variable, type_str, properties_str, directed, FALSE))
                /\ Returned("to", Self, 0)
    /\ UNCHANGED <<_fetch_results, cls, connection, budget>>

from_(edge_label, directed, variable, relationship, kwargs) ==
    /\ CanCall
    /\ IF ~_is_linking_valid_with_query(_query, "EDGE")
       THEN /\ Raised("from_", "InvalidMatchChainException", 0)
            /\ UNCHANGED _query
       ELSE LET labels_str == IF ~relationship.given THEN to_cypher_labels(edge_label)
                              ELSE to_cypher_labels(relationship._type)
                properties_str == IF ~relationship.given THEN to_cypher_properties(kwargs)
                                  ELSE to_cypher_properties(relationship._properties)
            IN  /\ _query' = Append(_query,
                        EdgePartialQuery(variable, labels_str, properties_str, directed, TRUE))
                /\ Returned("from_", Self, 0)
    /\ UNCHANGED <<_fetch_results, cls, connection, budget>>

\* separator.join([item, operator, to_cypher_value(value)])
WhereQuery(item, operator, value) ==
    LET separator == IF operator = <<":">> THEN <<>> ELSE <<" ">>
    IN  Join(separator, <<item, operator, to_cypher_value(value)>>)

\* where consulting the linking check like node does
where_checked(item, operator, value) ==
    /\ CanCall
    /\ IF ~_is_linking_valid_with_query(_query, "WHERE")
       THEN /\ Raised("where", "InvalidMatchChainException", 0)
            /\ UNCHANGED _query
       ELSE /\ _query' = Append(_query,
                    WhereConditionPartialQuery("WHERE", WhereQuery(item, operator, value)))
            /\ Returned("where", Self, 0)
    /\ UNCHANGED <<_fetch_results, cls, connection, budget>>

where(item, operator, value) ==
    /\ CanCall
    /\ _query' = Append(_query,
            WhereConditionPartialQuery("WHERE", WhereQuery(item, operator, value)))
    /\ Returned("where", Self, 0)
    /\ UNCHANGED <<_fetch_results, cls, connection, budget>>

and_where(item, operator, value) ==
    /\ CanCall
    /\ _query' = Append(_query,
            WhereConditionPartialQuery("AND", WhereQuery(item, operator, value)))
    /\ Returned("and_where", Self, 0)
    /\ UNCHANGED <<_fetch_results, cls, connection, budget>>

or_where(item, operator, value) ==
    /\ CanCall
    /\ _query' = Append(_query,
            WhereConditionPartialQuery("OR", WhereQuery(item, operator, value)))
    /\ Returned("or_where", Self, 0)
    /\ UNCHANGED <<_fetch_results, cls, connection, budget>>

xor_where(property, operator, value) ==
    /\ CanCall
    /\ _query' = Append(_query,
            WhereConditionPartialQuery("XOR", WhereQuery(property, operator, value)))
    /\ Returned("xor_where", Self, 0)
    /\ UNCHANGED <<_fetch_results, cls, connection, budget>>

unwind(list_expression, variable) ==
    /\ CanCall
    /\ _query' = Append(_query, UnwindPartialQuery(list_expression, variable))
    /\ Returned("unwind", Self, 0)
    /\ UNCHANGED <<_fetch_results, cls, connection, budget>>

\* with_ setting the flag as return_ does
with_fetches(results) ==
    /\ CanCall
    /\ _query' = Append(_query, WithPartialQuery(results))
    /\ _fetch_results' = TRUE
    /\ Returned("with_", Self, 0)
    /\ UNCHANGED <<cls, connection, budget>>

with_(results) ==
    /\ CanCall
    /\ _query' = Append(_query, WithPartialQuery(results))
    /\ Returned("with_", Self, 0)
    /\ UNCHANGED <<_fetch_results, cls, connection, budget>>

union(include_duplicates) ==
    /\ CanCall
    /\ _query' = Append(_query, UnionPartialQuery(include_duplicates))
    /\ Returned("union", Self, 0)
    /\ UNCHANGED <<_fetch_results, cls, connection, budget>>

delete(variable_expressions, detach) ==
    /\ CanCall
    /\ _query' = Append(_query, DeletePartialQuery(variable_expressions, detach))
    /\ Returned("delete", Self, 0)
    /\ UNCHANGED <<_fetch_results, cls, connection, budget>>

remove(items) ==
    /\ CanCall
    /\ _query' = Append(_query, RemovePartialQuery(items))
    /\ Returned("remove", Self, 0)
    /\ UNCHANGED <<_fetch_results, cls, connection, budget>>

yield_(results) ==
    /\ CanCall
    /\ _query' = Append(_query, YieldPartialQuery(results))
    /\ Returned("yield_", Self, 0)
    /\ UNCHANGED <<_fetch_results, cls, connection, budget>>

\* return_ appending its segment without setting the flag
return_keeps(results) ==
    /\ CanCall
    /\ _query' = Append(_query, ReturnPartialQuery(results))
    /\ Returned("return_", Self, 0)
    /\ UNCHANGED <<_fetch_results, cls, connection, budget>>

return_(results) ==
    /\ CanCall
    /\ _query' = Append(_query, ReturnPartialQuery(results))
    /\ _fetch_results' = TRUE
    /\ Returned("return_", Self, 0)
    /\ UNCHANGED <<cls, connection, budget>>

order_by(properties) ==
    /\ CanCall
    /\ _query' = Append(_query, OrderByPartialQuery(properties))
    /\ Returned("order_by", Self, 0)
    /\ UNCHANGED <<_fetch_results, cls, connection, budget>>

limit(integer_expression) ==
    /\ CanCall
    /\ _query' = Append(_query, LimitPartialQuery(integer_expression))
    /\ Returned("limit", Self, 0)
    /\ UNCHANGED <<_fetch_results, cls, connection, budget>>

skip(integer_expression) ==
    /\ CanCall
    /\ _query' = Append(_query, SkipPartialQuery(integer_expression))
    /\ Returned("skip", Self, 0)
    /\ UNCHANGED <<_fetch_results, cls, connection, budget>>

\* add_custom_cypher assigning the flag from the fragment alone
add_custom_cypher_assigns(custom_cypher) ==
    /\ CanCall
    /\ _query' = Append(_query, AddStringPartialQuery(custom_cypher))
    /\ _fetch_results' = ContainsReturn(custom_cypher)
    /\ Returned("add_custom_cypher", Self, 0)
    /\ UNCHANGED <<cls, connection, budget>>

add_custom_cypher(custom_cypher) ==
    /\ CanCall
    /\ _query' = Append(_query, AddStringPartialQuery(custom_cypher))
    /\ _fetch_results' = IF ContainsReturn(custom_cypher) THEN TRUE ELSE _fetch_results
    /\ Returned("add_custom_cypher", Self, 0)
    /\ UNCHANGED <<cls, connection, budget>>

load_csv(path, header, row) ==
    /\ CanCall
    /\ _query' = Append(_query, LoadCsvPartialQuery(path, header, row))
    /\ Returned("load_csv", Self, 0)
    /\ UNCHANGED <<_fetch_results, cls, connection, budget>>

\* the collaborator call made by a terminal operation
ConnectionCall(method, query) == [method |-> method, query |-> query]

\* get_single choosing the collaborator call by the flag, as execute does
get_single_by_flag(retrieve, rows) ==
    /\ CanCall
    /\ LET query == _construct_query(_query)
       IN  IF _fetch_results
           THEN /\ connection' = Append(connection, [method |-> "execute_and_fetch", query |-> query])
                /\ IF rows # <<>> /\ DOMAIN rows[1] # {}
                   THEN IF retrieve \in DOMAIN rows[1]
                        THEN Returned("get_single", RetValue(rows[1][retrieve]), 1)
                        ELSE Raised("get_single", "KeyError", 1)
                   ELSE IF rows = <<>>
                        THEN Returned("get_single", RetNone, 0)
                        ELSE Returned("get_single", RetRow, 1)
           ELSE /\ connection' = Append(connection, [method |-> "execute", query |-> query])
                /\ Raised("get_single", "TypeError", 0)
    /\ UNCHANGED <<_query, _fetch_results, cls, budget>>

\* rows is the lazy sequence execute_and_fetch produces for this call; a row
\* maps field names to values
get_single(retrieve, rows) ==
    /\ CanCall
    /\ LET query == _construct_query(_query)
           pulled == IF rows = <<>> THEN 0 ELSE 1
       IN  /\ connection' = Append(connection, ConnectionCall("execute_and_fetch", query))
           /\ IF rows # <<>> /\ DOMAIN rows[1] # {}
              THEN IF retrieve \in DOMAIN rows[1]
                   THEN Returned("get_single", RetValue(rows[1][retrieve]), pulled)
                   ELSE Raised("get_single", "KeyError", pulled)
              ELSE IF rows = <<>>
                   THEN Returned("get_single", RetNone, pulled)
                   ELSE Returned("get_single", RetRow, pulled)
    /\ UNCHANGED <<_query, _fetch_results, cls, budget>>

\* execute always streaming
execute_always_fetch ==
    /\ CanCall
    /\ connection' = Append(connection,
            [method |-> "execute_and_fetch", query |-> _construct_query(_query)])
    /\ Returned("execute", RetIterator, 0)
    /\ UNCHANGED <<_query, _fetch_results, cls, budget>>

\* execute emptying the segment sequence once the text is sent
execute_consumes ==
    /\ CanCall
    /\ connection' = Append(connection,
            [method |-> IF _fetch_results THEN "execute_and_fetch" ELSE "execute",
             query |-> _construct_query(_query)])
    /\ _query' = <<>>
    /\ Returned("execute", IF _fetch_results THEN RetIterator ELSE RetNone, 0)
    /\ UNCHANGED <<_fetch_results, cls, budget>>

execute ==
    /\ CanCall
    /\ LET query == _construct_query(_query)
       IN  IF _fetch_results
           THEN /\ connection' = Append(connection, ConnectionCall("execute_and_fetch", query))
                /\ Returned("execute", RetIterator, 0)
           ELSE /\ connection' = Append(connection, ConnectionCall("execute", query))
                /\ Returned("execute", RetNone, 0)
    /\ UNCHANGED <<_query, _fetch_results, cls, budget>>

\* ------------------------------------------------------------ builders
Classes == {"QueryBuilder", "Create", "Match", "Merge", "Call", "Unwind", "With"}

\* the arguments the preset builders are constructed with
PresetProcedure == <<"proc">>
PresetList == <<"[1]">>
PresetVariable == <<"x">>
PresetResults == <<>>

\* InitialQuery where With.__init__ appends nothing and Match.__init__
\* appends an optional match
InitialQuery_bare(c) ==
    CASE c = "QueryBuilder" -> <<>>
      [] c = "Create" -> <<CreatePartialQuery>>
      [] c = "Match" -> <<MatchPartialQuery(TRUE)>>
      [] c = "Merge" -> <<MergePartialQuery>>
      [] c = "Call" -> <<CallPartialQuery(PresetProcedure, None)>>
      [] c = "Unwind" -> <<UnwindPartialQuery(PresetList, PresetVariable)>>
      [] c = "With" -> <<>>

\* self._query after __init__ of class c
InitialQuery(c) ==
    CASE c = "QueryBuilder" -> <<>>
      [] c = "Create" -> <<CreatePartialQuery>>
      [] c = "Match" -> <<MatchPartialQuery(FALSE)>>
      [] c = "Merge" -> <<MergePartialQuery>>
      [] c = "Call" -> <<CallPartialQuery(PresetProcedure, None)>>
      [] c = "Unwind" -> <<UnwindPartialQuery(PresetList, PresetVariable)>>
      [] c = "With" -> <<WithPartialQuery(PresetResults)>>

\* DeclarativeBase.__init__ followed by the constructor of class c
Construct(c, calls) ==
    /\ cls = c
    /\ _query = InitialQuery(c)
    /\ _fetch_results = FALSE
    /\ connection = <<>>
    /\ trace = <<>>
    /\ budget = calls

\* ------------------------------------------------------------- inputs
Fragments ==
    { <<"MATCH", " ", "(n)", " ", "RETURN", " ", "n">>,
      <<"RETURN", " ", "n">>,
      <<" ", "SET", " ", "n.x", " ", "=", " ", "1">> }

Row1 == [f \in {"n"} |-> 7]
Row2 == [f \in {"n"} |-> 8]
EmptyRow == [f \in {} |-> 0]
RowSeqs == { <<>>, <<Row1, Row2>>, <<EmptyRow, Row1>> }

\* ------------------------------------------ every method, on every builder
Init == \E c \in Classes : Construct(c, MaxCalls)

Next ==
    \/ match(FALSE)
    \/ merge
    \/ create
    \/ call(<<"proc">>, None)
    \/ node(<<"L">>, <<"n">>, NoObject, <<>>)
    \/ to(<<"REL">>, TRUE, None, NoObject, <<>>)
    \/ from_(<<"REL">>, TRUE, None, NoObject, <<>>)
    \/ where(<<"n.age">>, <<">">>, 30)
    \/ and_where(<<"n.age">>, <<">">>, 30)
    \/ or_where(<<"n.age">>, <<">">>, 30)
    \/ xor_where(<<"n.age">>, <<">">>, 30)
    \/ unwind(<<"[1]">>, <<"x">>)
    \/ with_(<<>>)
    \/ union(TRUE)
    \/ delete(<< <<"n">> >>, FALSE)
    \/ remove(<< <<"n.x">> >>)
    \/ yield_(<<>>)
    \/ return_(<<>>)
    \/ order_by(<<"n.age">>)
    \/ limit(<<"1">>)
    \/ skip(<<"1">>)
    \/ \E c \in Fragments : add_custom_cypher(c)
    \/ load_csv(<<"/f.csv">>, TRUE, <<"row">>)
    \/ \E rows \in RowSeqs : get_single("n", rows)
    \/ execute

Spec == Init /\ [][Next]_vars

\* ------------------------- pattern chains and execution, on QueryBuilder
InitChain == Construct("QueryBuilder", MaxChain)

NextChain ==
    \/ match(FALSE)
    \/ node(<<"L">>, <<"n">>, NoObject, <<>>)
    \/ to(<<"REL">>, TRUE, None, NoObject, <<>>)
    \/ from_(<<"REL">>, TRUE, None, NoObject, <<>>)
    \/ where(<<"n.age">>, <<">">>, 30)
    \/ return_(<<>>)
    \/ \E c \in Fragments : add_custom_cypher(c)
    \/ \E rows \in RowSeqs : get_single("n", rows)
    \/ execute

SpecChain == InitChain /\ [][NextChain]_vars

\* ------------------------------------------------ the end-to-end example
ExampleResults == << << <<"n.name">>, <<>> >> >>

InitExample == Construct("QueryBuilder", MaxExample)

NextExample ==
    \/ \E optional \in BOOLEAN : match(optional)
    \/ \E labels \in {<<"Person">>, <<>>} : node(labels, <<"n">>, NoObject, <<>>)
    \/ \E operator \in {<<">">>, <<":">>} : where(<<"n.age">>, operator, 30)
    \/ return_(ExampleResults)
    \/ execute

SpecExample == InitExample /\ [][NextExample]_vars

\* ------------------------------------------------------------- claims
Called == trace' # trace
Op == Last(trace').op
Outcome == Last(trace')
LinkingOps == {"node", "to", "from_"}
TerminalOps == {"get_single", "execute"}
LinkKind(op) == IF op = "node" THEN "NODE" ELSE "EDGE"

\* C1: node() (kind NODE) and to()/from_() (kind EDGE) succeed exactly when
\* the segment sequence is empty or its last segment is of another kind, and
\* otherwise raise InvalidMatchChainException.
C1_LinkingIff ==
    [][(Called /\ Op \in LinkingOps) =>
          /\ Outcome.raised \in {"", "InvalidMatchChainException"}
          /\ Outcome.raised = "" <=>
                (_query = <<>> \/ Last(_query).type # LinkKind(Op))]_vars

\* node(), to(), node() on an empty builder all succeeded
C1_Witness ==
    /\ cls = "QueryBuilder"
    /\ Len(trace) = 3
    /\ <<trace[1].op, trace[2].op, trace[3].op>> = <<"node", "to", "node">>
    /\ \A i \in 1..3 : trace[i].raised = ""
    /\ <<_query[1].type, _query[2].type, _query[3].type>> = <<"NODE", "EDGE", "NODE">>

\* the type of the segment a chaining method appends
TypeOf(op) ==
    CASE op = "match" -> "MATCH"
      [] op = "merge" -> "MERGE"
      [] op = "create" -> "CREATE"
      [] op = "call" -> "CALL"
      [] op = "node" -> "NODE"
      [] op \in {"to", "from_"} -> "EDGE"
      [] op \in {"where", "and_where", "or_where", "xor_where"} -> "WHERE"
      [] op = "unwind" -> "UNWIND"
      [] op = "with_" -> "WITH"
      [] op = "union" -> "UNION"
      [] op = "delete" -> "DELETE"
      [] op = "remove" -> "REMOVE"
      [] op = "yield_" -> "YIELD"
      [] op = "return_" -> "RETURN"
      [] op = "order_by" -> "ORDER_BY"
      [] op = "limit" -> "LIMIT"
      [] op \in {"skip", "add_custom_cypher"} -> "SKIP"
      [] op = "load_csv" -> "LOAD_CSV"

\* the segment types of the calls of tr that returned the builder
RECURSIVE AcceptedTypes(_)
AcceptedTypes(tr) ==
    IF tr = <<>> THEN <<>>
    ELSE (IF Head(tr).ret.kind = "self" THEN <<TypeOf(Head(tr).op)>> ELSE <<>>)
         \o AcceptedTypes(Tail(tr))

Types(query) == [i \in 1..Len(query) |-> query[i].type]

\* C2: a node()/to()/from_() call that raises InvalidMatchChainException
\* leaves the segment sequence and the flag as they were; the next linking
\* call of the other kind succeeds; the sequence holds the segments of the
\* successful calls only.
C2_FailedAppend ==
    /\ [](Types(_query) = Types(InitialQuery(cls)) \o AcceptedTypes(trace))
    /\ [][(Called /\ Outcome.raised = "InvalidMatchChainException") =>
             /\ _query' = _query
             /\ _fetch_results' = _fetch_results]_vars
    /\ [][(/\ Called
           /\ trace # <<>>
           /\ Last(trace).raised = "InvalidMatchChainException"
           /\ Op \in LinkingOps
           /\ LinkKind(Op) # LinkKind(Last(trace).op)) =>
             Outcome.raised = ""]_vars

\* node() failed after node(), then to() succeeded
C2_Witness ==
    /\ Len(trace) = 3
    /\ <<trace[1].op, trace[2].op, trace[3].op>> = <<"node", "node", "to">>
    /\ trace[2].raised = "InvalidMatchChainException"
    /\ trace[3].raised = ""
    /\ Types(_query) = Types(InitialQuery(cls)) \o <<"NODE", "EDGE">>

\* C3: _fetch_results is false on every newly constructed builder and, once
\* true, stays true whatever is called afterwards.
C3_FlagMonotonic ==
    /\ [](trace = <<>> => ~_fetch_results)
    /\ [][_fetch_results => _fetch_results']_vars

\* the flag was set by the first call and a raw fragment without the keyword
\* was appended after it
C3_Witness ==
    /\ _fetch_results
    /\ Len(trace) = 2
    /\ trace[1].op \in {"return_", "add_custom_cypher"}
    /\ trace[2].op = "add_custom_cypher"
    /\ ~ContainsReturn(Last(_query).custom_cypher)

\* C4 as stated: only return_() changes the flag from false to true.
C4_OnlyReturn ==
    [][(~_fetch_results /\ _fetch_results') => (Called /\ Op = "return_")]_vars

\* C4: the flag changes from false to true only in return_() and in
\* add_custom_cypher() of a fragment that contains " RETURN "; return_()
\* always leaves it true, and it then stays true.
C4_ReturnOrFragment ==
    /\ [][(~_fetch_results /\ _fetch_results') =>
             /\ Called
             /\ \/ Op = "return_"
                \/ /\ Op = "add_custom_cypher"
                   /\ ContainsReturn(Last(_query').custom_cypher)]_vars
    /\ [][(Called /\ Op = "return_") => _fetch_results']_vars
    /\ [][_fetch_results => _fetch_results']_vars

\* return_() set the flag and another clause was appended after it
C4_Witness ==
    /\ Len(trace) = 2
    /\ trace[1].op = "return_"
    /\ trace[2].op = "with_"
    /\ Types(_query)[Len(_query) - 1] = "RETURN"
    /\ _fetch_results

\* the keyword RETURN is one of the words of the fragment
HasReturnKeyword(t) == \E i \in 1..Len(t) : t[i] = "RETURN"

\* C5 as stated: add_custom_cypher sets the flag for every fragment that
\* contains the keyword RETURN, also at its start or end, and leaves the
\* flag alone for a fragment without it.
C5_KeywordAnywhere ==
    [][(Called /\ Op = "add_custom_cypher") =>
          IF HasReturnKeyword(Last(_query').custom_cypher)
          THEN _fetch_results'
          ELSE _fetch_results' = _fetch_results]_vars

\* C6: execute() makes exactly one collaborator call, execute_and_fetch when
\* the flag is true and execute when it is false, with the text rendered
\* from the current segments.
C6_ExecuteOneCall ==
    [][(Called /\ Op = "execute") =>
          connection' = Append(connection,
              [method |-> IF _fetch_results THEN "execute_and_fetch" ELSE "execute",
               query |-> _construct_query(_query)])]_vars

\* execute() ran once without and once with the flag set
C6_Witness ==
    /\ Len(trace) = 3
    /\ <<trace[1].op, trace[2].op, trace[3].op>> = <<"execute", "return_", "execute">>
    /\ Len(connection) = 2
    /\ connection[1].method = "execute"
    /\ connection[2].method = "execute_and_fetch"

\* C7: get_single() calls execute_and_fetch whatever the flag is, and when
\* no row can be pulled it returns None without raising.
C7_GetSingle ==
    [][(Called /\ Op = "get_single") =>
          /\ Len(connection') = Len(connection) + 1
          /\ Last(connection').method = "execute_and_fetch"
          /\ Outcome.pulled = 0 => (Outcome.raised = "" /\ Outcome.ret = RetNone)]_vars

\* get_single() on a builder whose flag is false got no row
C7_Witness ==
    /\ ~_fetch_results
    /\ trace # <<>>
    /\ Last(trace).op = "get_single"
    /\ Last(trace).pulled = 0
    /\ Last(trace).ret = RetNone
    /\ Last(connection).method = "execute_and_fetch"

\* C8: execute() and get_single() leave the segments and the flag unchanged,
\* and a terminal call that directly follows another sends the same text.
C8_RenderReadOnly ==
    [][(Called /\ Op \in TerminalOps) =>
          /\ _query' = _query
          /\ _fetch_results' = _fetch_results
          /\ (trace # <<>> /\ Last(trace).op \in TerminalOps) =>
                Last(connection').query = Last(connection).query]_vars

\* a non-empty statement was executed twice in a row
C8_Witness ==
    /\ Len(_query) >= 2
    /\ Len(trace) >= 2
    /\ Last(trace).op = "execute"
    /\ trace[Len(trace) - 1].op \in TerminalOps
    /\ Len(connection) = 2
    /\ connection[1].query = connection[2].query

ChainingOps ==
    {"match", "merge", "create", "call", "node", "to", "from_", "where",
     "and_where", "or_where", "xor_where", "unwind", "with_", "union", "delete",
     "remove", "yield_", "return_", "order_by", "limit", "skip",
     "add_custom_cypher", "load_csv"}

\* C9: a successful chaining call appends exactly one segment, of its own
\* type, after the segments already there and returns the builder itself;
\* every other call leaves the sequence as it is.
C9_AppendOnly ==
    [][Called =>
          IF Op \in ChainingOps /\ Outcome.raised = ""
          THEN /\ Len(_query') = Len(_query) + 1
               /\ SubSeq(_query', 1, Len(_query)) = _query
               /\ Last(_query').type = TypeOf(Op)
               /\ Outcome.ret = Self
          ELSE _query' = _query]_vars

\* two segments were appended, in call order, after the one of the preset
C9_Witness ==
    /\ cls = "Match"
    /\ Len(trace) = 2
    /\ <<trace[1].op, trace[2].op>> = <<"node", "where">>
    /\ Types(_query) = <<"MATCH", "NODE", "WHERE">>

\* the builder after match().node(labels="Person", variable="n")
\* .where("n.age", ">", 30).return_({"n.name": ""}).execute()
ExampleExecuted ==
    /\ Len(trace) = 5
    /\ [i \in 1..5 |-> trace[i].op] = <<"match", "node", "where", "return_", "execute">>
    /\ _query = << MatchPartialQuery(FALSE),
                   NodePartialQuery(<<"n">>, <<":", "Person">>, <<>>),
                   WhereConditionPartialQuery("WHERE", <<"n.age", " ", ">", " ", "30">>),
                   ReturnPartialQuery(ExampleResults) >>

\* C10 as stated: the example chain sends the text without leading or
\* trailing whitespace on the streaming path.
C10_ExampleTrimmed ==
    ExampleExecuted =>
        connection = << [method |-> "execute_and_fetch",
                         query |-> "MATCH (n:Person) WHERE n.age > 30 RETURN n.name"] >>

\* C10: the example chain sends, on the streaming path, the text with one
\* leading and one trailing space.
C10_Example ==
    ExampleExecuted =>
        connection = << [method |-> "execute_and_fetch",
                         query |-> " MATCH (n:Person) WHERE n.age > 30 RETURN n.name "] >>

C10_Witness == ExampleExecuted /\ Len(connection) = 1

\* ------------------------------------------------- a CREATE pattern chain
InitPattern == Construct("QueryBuilder", MaxPattern)

NextPattern ==
    \/ create
    \/ \E labels \in {<<"X">>, <<"Y">>}, variable \in {<<"a">>, <<"b">>} :
          node(labels, variable, NoObject, <<>>)
    \/ \E directed \in BOOLEAN : to(<<"REL">>, directed, None, NoObject, <<>>)
    \/ execute

SpecPattern == InitPattern /\ [][NextPattern]_vars

\* the builder after create().node(variable="a", labels="X")
\* .to(edge_label="REL").node(variable="b", labels="Y")
PatternBuilt ==
    /\ Len(trace) = 4
    /\ [i \in 1..4 |-> trace[i].op] = <<"create", "node", "to", "node">>
    /\ Len(_query) = 4
    /\ _query[2] = NodePartialQuery(<<"a">>, <<":", "X">>, <<>>)
    /\ _query[3].directed
    /\ _query[4] = NodePartialQuery(<<"b">>, <<":", "Y">>, <<>>)

\* C11 as stated: the chain raises no linking error and renders to exactly
\* CREATE (a:X)-[:REL]->(b:Y).
C11_PatternExact ==
    PatternBuilt =>
        /\ \A i \in 1..4 : trace[i].raised = ""
        /\ _construct_query(_query) = "CREATE (a:X)-[:REL]->(b:Y)"

\* C11: the chain raises no linking error and renders to the text
\* CREATE (a:X)-[:REL]->(b:Y) preceded by one space.
C11_Pattern ==
    PatternBuilt =>
        /\ \A i \in 1..4 : trace[i].raised = ""
        /\ _construct_query(_query) = " CREATE (a:X)-[:REL]->(b:Y)"

C11_Witness == PatternBuilt /\ Last(_query).type = "NODE" /\ connection = <<>>

\* --------------------------------------------------- DELETE segments
\* the lists of at most n elements of S
Lists(S, n) == UNION {[1..k -> S] : k \in 0..n}

Expressions == {<<"n">>, <<"m">>}

InitDelete == Construct("QueryBuilder", MaxRender)

NextDelete ==
    \/ match(FALSE)
    \/ \E variable_expressions \in Lists(Expressions, MaxItems), detach \in BOOLEAN :
          delete(variable_expressions, detach)
    \/ execute

SpecDelete == InitDelete /\ [][NextDelete]_vars

\* the texts of list, separated by a comma and a space, as a string
RECURSIVE CommaSeparated(_)
CommaSeparated(list) ==
    IF list = <<>> THEN ""
    ELSE IF Len(list) = 1 THEN Flat(list[1])
    ELSE Flat(list[1]) \o ", " \o CommaSeparated(Tail(list))

\* C12: the text of a Delete segment has no token DETACH when detach is
\* false, has DETACH directly before DELETE when detach is true, and lists
\* the expressions after DELETE in their order, joined by ", ".
C12_DeleteText ==
    \A i \in 1..Len(_query) :
        _query[i].class = "DeletePartialQuery" =>
            LET q == _query[i]
                t == construct_query(q)
            IN  /\ ~q.detach => \A k \in 1..Len(t) : t[k] # "DETACH"
                /\ q.detach => \E k \in 1..(Len(t) - 2) :
                      <<t[k], t[k + 1], t[k + 2]>> = <<"DETACH", " ", "DELETE">>
                /\ \E k \in 1..Len(t) :
                      /\ t[k] = "DELETE"
                      /\ Flat(SubSeq(t, k + 1, Len(t)))
                            = " " \o CommaSeparated(q.variable_expressions) \o " "

\* delete(["n", "m"], detach=True) and delete(["m"]) were appended
C12_Witness ==
    /\ Len(_query) = 2
    /\ _query[1] = DeletePartialQuery(<< <<"n">>, <<"m">> >>, TRUE)
    /\ _query[2] = DeletePartialQuery(<< <<"m">> >>, FALSE)
    /\ Flat(construct_query(_query[1])) = " DETACH DELETE n, m "

\* ------------------------------------- WITH, YIELD and RETURN segments
Keys == {<<"a">>, <<"b.x">>}
Aliases == {<<>>, <<"a">>, <<"c">>}

\* the mappings of at most MaxItems entries: no key occurs twice
Mappings ==
    {m \in Lists(Keys \X Aliases, MaxItems) :
        \A i, j \in 1..Len(m) : i # j => m[i][1] # m[j][1]}

InitResults == Construct("QueryBuilder", MaxRender)

NextResults ==
    \/ \E results \in Mappings : with_(results)
    \/ \E results \in Mappings : yield_(results)
    \/ \E results \in Mappings : return_(results)
    \/ execute

SpecResults == InitResults /\ [][NextResults]_vars

ResultsClasses == {"WithPartialQuery", "YieldPartialQuery", "ReturnPartialQuery"}

Keyword(class) ==
    CASE class = "WithPartialQuery" -> "WITH"
      [] class = "YieldPartialQuery" -> "YIELD"
      [] class = "ReturnPartialQuery" -> "RETURN"

\* one entry of a mapping, as a string
EntryText(entry) ==
    IF entry[2] = <<>> \/ entry[2] = entry[1]
    THEN Flat(entry[1])
    ELSE Flat(entry[1]) \o " AS " \o Flat(entry[2])

\* the entries of a mapping in insertion order, as a string
RECURSIVE EntriesText(_)
EntriesText(m) ==
    IF Len(m) = 1 THEN EntryText(m[1])
    ELSE EntryText(m[1]) \o ", " \o EntriesText(Tail(m))

\* C13: a With, Yield or Return segment renders its keyword followed by *
\* for an empty mapping and otherwise by the entries in insertion order,
\* joined by ", ", each as the key alone when the alias is empty or equal to
\* the key and as "key AS alias" otherwise.
C13_ResultsText ==
    \A i \in 1..Len(_query) :
        _query[i].class \in ResultsClasses =>
            Flat(construct_query(_query[i]))
                = " " \o Keyword(_query[i].class) \o " "
                  \o (IF _query[i].results = <<>> THEN "*"
                      ELSE EntriesText(_query[i].results))
                  \o " "

\* with_({"a": "a", "b.x": "c"}) and return_({}) were appended
C13_Witness ==
    /\ Len(_query) = 2
    /\ _query[1] = WithPartialQuery(<< << <<"a">>, <<"a">> >>, << <<"b.x">>, <<"c">> >> >>)
    /\ _query[2] = ReturnPartialQuery(<<>>)
    /\ Flat(construct_query(_query[1])) = " WITH a, b.x AS c "
    /\ Flat(construct_query(_query[2])) = " RETURN * "

\* -------------------------------------------------- calls without a check
NonLinkingOps == ChainingOps \ LinkingOps

\* C14: every chaining call other than node(), to() and from_() can be made
\* in every builder state and then succeeds and appends its segment,
\* whatever the last segment is.
C14_NoLinkingCheck ==
    /\ [][(Called /\ Op \in NonLinkingOps) =>
             /\ Outcome.raised = ""
             /\ _query' = Append(_query, Last(_query'))
             /\ Last(_query').type = TypeOf(Op)]_vars
    /\ [](CanCall =>
             /\ ENABLED match(FALSE)
             /\ ENABLED merge
             /\ ENABLED create
             /\ ENABLED call(<<"proc">>, None)
             /\ ENABLED where(<<"n.age">>, <<">">>, 30)
             /\ ENABLED and_where(<<"n.age">>, <<">">>, 30)
             /\ ENABLED or_where(<<"n.age">>, <<">">>, 30)
             /\ ENABLED xor_where(<<"n.age">>, <<">">>, 30)
             /\ ENABLED unwind(<<"[1]">>, <<"x">>)
             /\ ENABLED with_(<<>>)
             /\ ENABLED union(TRUE)
             /\ ENABLED delete(<< <<"n">> >>, FALSE)
             /\ ENABLED remove(<< <<"n.x">> >>)
             /\ ENABLED yield_(<<>>)
             /\ ENABLED return_(<<>>)
             /\ ENABLED order_by(<<"n.age">>)
             /\ ENABLED limit(<<"1">>)
             /\ ENABLED skip(<<"1">>)
             /\ \A c \in Fragments : ENABLED add_custom_cypher(c)
             /\ ENABLED load_csv(<<"/f.csv">>, TRUE, <<"row">>))

\* where() succeeded directly after where()
C14_Witness ==
    /\ Len(trace) = 2
    /\ <<trace[1].op, trace[2].op>> = <<"where", "where">>
    /\ trace[2].raised = ""
    /\ Len(_query) >= 2
    /\ _query[Len(_query)].type = "WHERE"
    /\ _query[Len(_query) - 1].type = "WHERE"

\* ------------------------------------------------- node() after node()
\* the method of the last call of tr that appended a segment, "" if none
RECURSIVE LastAccepted(_)
LastAccepted(tr) ==
    IF tr = <<>> THEN ""
    ELSE IF Last(tr).ret.kind = "self" THEN Last(tr).op
    ELSE LastAccepted(SubSeq(tr, 1, Len(tr) - 1))

\* a node() call of tr succeeded and no to()/from_() call succeeded after it
NodeWithoutEdge(tr) ==
    \E i \in 1..Len(tr) :
        /\ tr[i].op = "node"
        /\ tr[i].raised = ""
        /\ \A j \in (i + 1)..Len(tr) :
              ~(tr[j].op \in {"to", "from_"} /\ tr[j].raised = "")

\* C15 as stated: node() raises, before anything is rendered or sent,
\* whenever an earlier node() call is not yet followed by a to()/from_()
\* call, whatever other calls were made in between.
C15_NodeNeedsEdge ==
    [][(Called /\ Op = "node" /\ NodeWithoutEdge(trace)) =>
          /\ Outcome.raised = "InvalidMatchChainException"
          /\ connection' = connection]_vars

\* C15: node() raises, before anything is rendered or sent, when the last
\* call that appended a segment was node(); when it was any other chaining
\* call, where() and add_custom_cypher() included, node() succeeds.
C15_AdjacentNodes ==
    [][(Called /\ Op = "node") =>
          IF LastAccepted(trace) = "node"
          THEN /\ Outcome.raised = "InvalidMatchChainException"
               /\ connection' = connection
               /\ _query' = _query
          ELSE Outcome.raised = ""]_vars

\* node() succeeded after node().where() and then failed directly after itself
C15_Witness ==
    /\ Len(trace) = 4
    /\ [i \in 1..4 |-> trace[i].op] = <<"node", "where", "node", "node">>
    /\ trace[3].raised = ""
    /\ trace[4].raised = "InvalidMatchChainException"
    /\ connection = <<>>
    /\ Types(_query) = <<"NODE", "WHERE", "NODE">>

\* --------------------------------------------------- get_single with rows
\* C16 as stated: when the execution yields at least one row, get_single
\* pulls exactly one row and returns the value of that first row at the
\* field, also when the first row is an empty mapping.  (Every non-empty
\* first row of RowSeqs is Row1.)
C16_FirstRowValue ==
    [][(Called /\ Op = "get_single" /\ Outcome.pulled >= 1) =>
          /\ Outcome.pulled = 1
          /\ Outcome.raised = ""
          /\ Outcome.ret = RetValue(Row1["n"])]_vars

\* ------------------------------------------------ whitespace in the text
WsFragments ==
    { <<"\t">>, <<" ">>, <<"a">>, <<" ", "\t">>, <<"a", "\t", "b", " ">>,
      <<"a", " ", "\t", " ", "b">>, <<" ", "a", " ">> }

InitWhitespace == Construct("QueryBuilder", MaxFragments)

NextWhitespace ==
    \/ match(FALSE)
    \/ \E c \in WsFragments : add_custom_cypher(c)
    \/ execute

SpecWhitespace == InitWhitespace /\ [][NextWhitespace]_vars

\* what position p of t contributes when every maximal run of two or more
\* whitespace characters is replaced by one space
Contribution(t, p) ==
    IF t[p] \notin WS THEN <<t[p]>>
    ELSE LET afterWs == p > 1 /\ t[p - 1] \in WS
             beforeWs == p < Len(t) /\ t[p + 1] \in WS
         IN  IF ~afterWs /\ ~beforeWs THEN <<t[p]>>
             ELSE IF ~afterWs THEN <<" ">>
             ELSE <<>>

RECURSIVE Contributions(_, _)
Contributions(t, p) ==
    IF p > Len(t) THEN <<>> ELSE Contribution(t, p) \o Contributions(t, p + 1)

RunsReplaced(t) == Contributions(t, 1)

NoAdjacentWs(t) == \A p \in 1..(Len(t) - 1) : ~(t[p] \in WS /\ t[p + 1] \in WS)

\* C17: the rendered statement is the concatenation of the segments' texts
\* with every maximal run of two or more whitespace characters replaced by
\* one space, single whitespace characters kept; it has no two consecutive
\* whitespace characters, and it is what execute() sends.
C17_Collapse ==
    /\ [](/\ ReSubWs(JoinedQuery(_query)) = RunsReplaced(JoinedQuery(_query))
          /\ NoAdjacentWs(ReSubWs(JoinedQuery(_query))))
    /\ [][(Called /\ Op = "execute") =>
             Last(connection').query = Flat(RunsReplaced(JoinedQuery(_query)))]_vars

\* a tab alone is kept, a run that spans two segments becomes one space
C17_Witness ==
    /\ Len(_query) = 2
    /\ _query[1].class = "AddStringPartialQuery"
    /\ _query[1].custom_cypher = <<"a", "\t", "b", " ">>
    /\ _query[2].class = "MatchPartialQuery"
    /\ connection # <<>>
    /\ Last(connection).query = "a\tb MATCH "

\* ----------------------------------------------------------- EDGE segments
EdgeVariables == {None, <<"r">>}
EdgeLabels == {<<>>, <<"REL">>}
EdgeProperties == {<<>>, << << <<"w">>, <<"1">> >> >>}

InitEdge == Construct("QueryBuilder", MaxRender)

NextEdge ==
    \/ node(<<"L">>, <<"n">>, NoObject, <<>>)
    \/ \E edge_label \in EdgeLabels, directed \in BOOLEAN, variable \in EdgeVariables,
          kwargs \in EdgeProperties :
          to(edge_label, directed, variable, NoObject, kwargs)
    \/ \E edge_label \in EdgeLabels, directed \in BOOLEAN, variable \in EdgeVariables,
          kwargs \in EdgeProperties :
          from_(edge_label, directed, variable, NoObject, kwargs)
    \/ execute

SpecEdge == InitEdge /\ [][NextEdge]_vars

\* variable, labels and properties of an Edge segment, without separator
Inner(q) ==
    (IF q.variable = None THEN "" ELSE Flat(q.variable))
    \o Flat(q.labels) \o Flat(q.properties)

\* C18: an Edge segment renders as -[inner]- when it is not directed,
\* whatever its direction flag is, as <-[inner]- when it is directed and
\* points from (from_()), and as -[inner]-> when it is directed and does not
\* (to()); inner is variable, labels and properties without separator.
C18_EdgeText ==
    /\ [](\A i \in 1..Len(_query) :
            _query[i].class = "EdgePartialQuery" =>
                Flat(construct_query(_query[i]))
                    = IF ~_query[i].directed THEN "-[" \o Inner(_query[i]) \o "]-"
                      ELSE IF _query[i].from_ THEN "<-[" \o Inner(_query[i]) \o "]-"
                      ELSE "-[" \o Inner(_query[i]) \o "]->")
    /\ [][(Called /\ Op \in {"to", "from_"} /\ Outcome.raised = "") =>
             /\ Last(_query').class = "EdgePartialQuery"
             /\ Last(_query').from_ = (Op = "from_")]_vars

\* an undirected from_() edge with variable, type and properties, after a node
C18_Witness ==
    /\ Len(trace) = 2
    /\ <<trace[1].op, trace[2].op>> = <<"node", "from_">>
    /\ Len(_query) = 2
    /\ ~_query[2].directed
    /\ _query[2].from_
    /\ Flat(construct_query(_query[2])) = "-[r:REL{w: 1}]-"

\* ------------------------------- a preset builder against a QueryBuilder
\* The caller builds on an empty QueryBuilder, starting with the call that
\* matches a preset builder, then constructs that preset builder and makes
\* the same calls on it, the matching call left out.

\* a new builder of class c is constructed with the same collaborator; the
\* caller goes on with the new builder
__init__(c) ==
    /\ CanCall
    /\ cls' = c
    /\ _query' = InitialQuery(c)
    /\ _fetch_results' = FALSE
    /\ Returned("__init__", Self, 0)
    /\ UNCHANGED <<connection, budget>>

\* the preset builder whose constructor makes the chaining call op
PresetOf(op) ==
    CASE op = "match" -> "Match"
      [] op = "merge" -> "Merge"
      [] op = "create" -> "Create"
      [] op = "call" -> "Call"
      [] op = "unwind" -> "Unwind"
      [] op = "with_" -> "With"

\* the calls that match the presets, with the presets' arguments
FirstCall ==
    \/ match(FALSE)
    \/ merge
    \/ create
    \/ call(PresetProcedure, None)
    \/ unwind(PresetList, PresetVariable)
    \/ with_(PresetResults)

\* the calls made on both builders; each method has one argument list, so
\* the method name identifies the call
PresetStep ==
    \/ match(FALSE)
    \/ node(<<"L">>, <<"n">>, NoObject, <<>>)
    \/ to(<<"REL">>, TRUE, None, NoObject, <<>>)
    \/ where(<<"n.age">>, <<">">>, 30)
    \/ with_(<<>>)
    \/ return_(<<>>)
    \/ add_custom_cypher(<<"MATCH", " ", "(n)", " ", "RETURN", " ", "n">>)
    \/ execute

\* position of the preset's construction in the trace, 0 before it
InitAt ==
    IF \E i \in 1..Len(trace) : trace[i].op = "__init__"
    THEN CHOOSE i \in 1..Len(trace) : trace[i].op = "__init__"
    ELSE 0

InitPreset == Construct("QueryBuilder", 2 * MaxPreset + 2)

NextPreset ==
    \/ Len(trace) = 0 /\ FirstCall
    \/ cls = "QueryBuilder" /\ Len(trace) \in 1..MaxPreset /\ PresetStep
    \/ cls = "QueryBuilder" /\ Len(trace) >= 1 /\ __init__(PresetOf(trace[1].op))
    \/ /\ cls # "QueryBuilder"
       /\ Len(trace) + 1 <= 2 * InitAt - 2
       /\ PresetStep
       /\ Last(trace').op = trace[Len(trace) + 2 - InitAt].op

SpecPreset == InitPreset /\ [][NextPreset]_vars

\* the number of statements the QueryBuilder sent before the construction
SentBefore == Cardinality({i \in 1..(InitAt - 1) : trace[i].op = "execute"})

\* C19: a preset builder is, right after construction, in the state of an
\* empty QueryBuilder after the one matching call (one segment of that kind,
\* result mode false), and every call sequence then made on both is accepted
\* or rejected call by call alike and sends the same statement texts.
C19_PresetEquivalent ==
    /\ [][(Len(trace) = 1 /\ Len(trace') = 2 /\ trace'[2].op = "__init__") =>
             /\ _query' = _query
             /\ _fetch_results' = _fetch_results
             /\ Len(_query') = 1
             /\ _fetch_results' = FALSE]_vars
    /\ [](InitAt > 0 =>
            /\ \A j \in 1..(Len(trace) - InitAt) :
                  /\ trace[InitAt + j].op = trace[1 + j].op
                  /\ trace[InitAt + j].raised = trace[1 + j].raised
                  /\ trace[InitAt + j].ret = trace[1 + j].ret
            /\ \A i \in 1..(Len(connection) - SentBefore) :
                  /\ i <= SentBefore
                  /\ connection[SentBefore + i] = connection[i])

\* Match() replays node, node (rejected) and execute after QueryBuilder did
C19_Witness ==
    /\ cls = "Match"
    /\ Len(trace) = 8
    /\ InitAt = 5
    /\ <<trace[6].op, trace[7].op, trace[8].op>> = <<"node", "node", "execute">>
    /\ trace[7].raised # ""
    /\ Len(connection) = 2
    /\ connection[2].query = " MATCH (n:L)"

\* ------------------------------------------------- calls after execution
\* execute() or get_single() was called on the builder
Consumed == \E i \in 1..Len(trace) : trace[i].op \in TerminalOps

\* C20 as stated: once execute() or get_single() was called, no later call
\* changes the segment sequence or the result-mode flag, and every later
\* execution sends the text the first one sent.
C20_Immutable ==
    /\ [][(Consumed /\ Called) =>
             /\ _query' = _query
             /\ _fetch_results' = _fetch_results]_vars
    /\ [](\A i \in 1..Len(connection) : connection[i].query = connection[1].query)

\* C20: execute() and get_single() themselves leave the segment sequence
\* and the flag alone and send the text of the sequence as it then is; an
\* execution does not freeze the builder: a chaining call made after it
\* still appends its one segment when it succeeds (and changes nothing when
\* it is rejected), and never clears the flag.
C20_AppendsAfterExecution ==
    [][(Consumed /\ Called) =>
          IF Op \in TerminalOps
          THEN /\ _query' = _query
               /\ _fetch_results' = _fetch_results
               /\ Last(connection').query = _construct_query(_query)
          ELSE IF Outcome.raised = ""
          THEN /\ Len(_query') = Len(_query) + 1
               /\ SubSeq(_query', 1, Len(_query)) = _query
               /\ _fetch_results => _fetch_results'
               /\ connection' = connection
          ELSE /\ _query' = _query
               /\ _fetch_results' = _fetch_results
               /\ connection' = connection]_vars

\* match, execute, return_, execute: the second execution streams a longer text
C20_Witness ==
    /\ Len(trace) = 4
    /\ <<trace[1].op, trace[2].op, trace[3].op, trace[4].op>>
          = <<"match", "execute", "return_", "execute">>
    /\ Len(_query) = 2
    /\ _fetch_results
    /\ Len(connection) = 2
    /\ connection[1].method = "execute"
    /\ connection[2].method = "execute_and_fetch"
    /\ connection[1].query # connection[2].query

\* ------------------------------------ linking calls on every builder class
InitLinking == \E c \in Classes : Construct(c, MaxLinking)

NextLinking ==
    \/ match(FALSE)
    \/ node(<<"L">>, <<"n">>, NoObject, <<>>)
    \/ to(<<"REL">>, TRUE, None, NoObject, <<>>)
    \/ from_(<<"REL">>, TRUE, None, NoObject, <<>>)
    \/ where(<<"n.age">>, <<">">>, 30)

SpecLinking == InitLinking /\ [][NextLinking]_vars

\* C21: in every state of every builder, whatever successful and failed
\* chaining calls were made, no two adjacent segments are both Node segments
\* and no two adjacent segments are both Edge segments.
C21_NoAdjacentLinks ==
    \A i \in 1..(Len(_query) - 1) :
        /\ ~(_query[i].class = "NodePartialQuery" /\ _query[i + 1].class = "NodePartialQuery")
        /\ ~(_query[i].class = "EdgePartialQuery" /\ _query[i + 1].class = "EdgePartialQuery")

\* on Match(): node, node rejected, to, to rejected
C21_Witness ==
    /\ cls = "Match"
    /\ Len(trace) = 4
    /\ [i \in 1..4 |-> trace[i].op] = <<"node", "node", "to", "to">>
    /\ [i \in 1..4 |-> trace[i].raised]
          = <<"", "InvalidMatchChainException", "", "InvalidMatchChainException">>
    /\ [i \in 1..Len(_query) |-> _query[i].class]
          = <<"MatchPartialQuery", "NodePartialQuery", "EdgePartialQuery">>

\* ------------------------------------------- the flag and the segments
\* the segment is a Return segment or a raw fragment containing " RETURN "
Fetching(q) ==
    \/ q.class = "ReturnPartialQuery"
    \/ /\ q.class = "AddStringPartialQuery"
       /\ ContainsReturn(q.custom_cypher)

\* C22: in every state the flag is true exactly when the segment sequence
\* holds a Return segment or a raw fragment whose text contains " RETURN ".
C22_FlagIffSegment ==
    _fetch_results = (\E i \in 1..Len(_query) : Fetching(_query[i]))

\* the fragment "RETURN n" left the flag false, the fragment
\* "MATCH (n) RETURN n" appended after it made it true
C22_Witness ==
    /\ Len(trace) = 2
    /\ trace[1].op = "add_custom_cypher"
    /\ trace[2].op = "add_custom_cypher"
    /\ _query[Len(_query) - 1].custom_cypher = <<"RETURN", " ", "n">>
    /\ ~Fetching(_query[Len(_query) - 1])
    /\ Fetching(Last(_query))
    /\ _fetch_results

====
